---- MODULE Spec2Model ----
(***************************************************************************)
(* Verification model of the semantic name-resolution engine               *)
(* (SkinNameManager, src/skin_name_manager.py) and of the catalog refresh  *)
(* job it calls (update_skin_list, src/update_skin_name.py).               *)
(*                                                                         *)
(* Texts are sequences of one-character strings.  Embeddings are unit      *)
(* vectors scaled by 10 with integer components, so that the dot product   *)
(* of two embeddings is the cosine similarity in hundredths: a score s of  *)
(* the program is the integer 100*s here, and the comparison               *)
(* score >= score_cutoff / 100.0 is the comparison of that integer with    *)
(* score_cutoff.                                                           *)
(***************************************************************************)
EXTENDS Integers, Sequences, FiniteSets, TLC

\* ------------------------------------------------------------------ bounds
MaxLines == 2
MaxQueryLen == 2

\* ------------------------------------------------------------------- texts
Chars == {"a", "A", " "}

RECURSIVE TextsUpTo(_)
TextsUpTo(n) ==
    IF n = 0 THEN {<<>>}
    ELSE LET shorter == TextsUpTo(n - 1)
         IN  shorter \cup {Append(t, c) : t \in {u \in shorter : Len(u) = n - 1}, c \in Chars}

\* Python None, where a text is expected (a query, a returned name).
None == <<"None">>

\* str.strip(): drop leading and trailing whitespace.
RECURSIVE LStrip(_)
LStrip(t) == IF t # <<>> /\ Head(t) = " " THEN LStrip(Tail(t)) ELSE t

RECURSIVE RStrip(_)
RStrip(t) ==
    IF t # <<>> /\ t[Len(t)] = " " THEN RStrip(SubSeq(t, 1, Len(t) - 1)) ELSE t

Strip(t) == RStrip(LStrip(t))

\* str.lower()
Lower(t) == [i \in DOMAIN t |-> IF t[i] = "A" THEN "a" ELSE t[i]]

\* ------------------------------------------------------ vectors and model
\* The embedding dimension of the model (shape[1] of every matrix it makes).
Dim == 2

\* Unit vectors, scaled by 10.
UnitVectors == << <<10, 0>>, <<8, 6>>, <<6, 8>>, <<0, 10>>, <<-6, 8>>, <<-10, 0>> >>

CharCode(c) == IF c = "a" THEN 1 ELSE IF c = "A" THEN 2 ELSE 3

RECURSIVE TextCode(_)
TextCode(t) ==
    IF t = <<>> THEN 0 ELSE TextCode(SubSeq(t, 1, Len(t) - 1)) + Len(t) * CharCode(t[Len(t)])

\* model.encode([text], normalize_embeddings=True)[0]: a deterministic
\* function from texts to unit vectors.
Encode(t) == UnitVectors[((TextCode(t) + Len(UnitVectors) - 1) % Len(UnitVectors)) + 1]

\* model.encode(names, normalize_embeddings=True): one row per name.
EncodeAll(names) == [i \in DOMAIN names |-> Encode(names[i])]

\* Inner product of two vectors of dimension Dim: the similarity score.
Dot(u, v) == u[1] * v[1] + u[2] * v[2]

\* ------------------------------------------------------- values and files
\* An absent matrix (Python None) and a present one.  Rows are numbered from 1
\* here (row i is row i-1 of the program).
NoMatrix == [present |-> FALSE, rows |-> <<>>]
Matrix(m) == [present |-> TRUE, rows |-> m]

\* The embedding cache artifact (skin_embeddings.npy).
CacheMissing == [kind |-> "missing", ndim |-> 0, rows |-> <<>>]
CacheUnreadable == [kind |-> "unreadable", ndim |-> 0, rows |-> <<>>]
CacheOneDim == [kind |-> "array", ndim |-> 1, rows |-> <<>>]
CacheArray(m) == [kind |-> "array", ndim |-> 2, rows |-> m]

\* The catalog artifact (skin_list.txt): absent, or its lines.
FileMissing == [exists |-> FALSE, lines |-> <<>>]
FileOf(ls) == [exists |-> TRUE, lines |-> ls]

\* What an operation did, in order: entries of the log of the last call.
Ev(what, text) == [ev |-> what, text |-> text]

VARIABLES
    catalog_file,        \* skin_list.txt
    mapping_file,        \* skin_name_mapping.json
    cache_file,          \* skin_embeddings.npy
    model_status,        \* "ok", "load_fails" or "encode_fails": the embedding model
    faiss,               \* whether "import faiss" succeeded
    tie_faiss,           \* order of equal scores in IndexFlatIP.search: "low" or "high" row first
    tie_numpy,           \* order of equal scores in np.argsort
    alive,               \* a manager has been constructed in this session
    skin_names,          \* self.skin_names
    alias_to_canonical,  \* self.alias_to_canonical
    embedding_model,     \* self._embedding_model: "None" or "loaded"
    embeddings,          \* self._embeddings
    vector_dim,          \* self._vector_dim (0 for None)
    vector_index,        \* self._vector_index
    last,                \* the last operation: its arguments, result and log
    performed,           \* how often the manager has done each costly operation
    threads,             \* the calls in progress on concurrent callers: their positions
    conversation_history,\* ReActAgent.conversation_history
    runs,                \* the ReActAgent.run generators of the callers of the agent
    started              \* how many runs have been started on the agent

vars == <<catalog_file, mapping_file, cache_file, model_status, faiss, tie_faiss, tie_numpy,
          alive, skin_names, alias_to_canonical, embedding_model, embeddings, vector_dim,
          vector_index, last, performed, threads, conversation_history, runs, started>>

\* The state of the agent, which no operation of the manager touches.
Agent == <<conversation_history, runs, started>>

\* The part of the state the methods of the manager read and write, as a
\* record that the operators below pass along; raised is set when an
\* exception is propagating.
World ==
    [embedding_model |-> embedding_model, embeddings |-> embeddings, vector_dim |-> vector_dim,
     vector_index |-> vector_index, cache_file |-> cache_file, raised |-> FALSE, log |-> <<>>]

Logged(w, what, text) == [w EXCEPT !.log = Append(@, Ev(what, text))]

Raise(w) == [w EXCEPT !.raised = TRUE]

\* x = value; then the statements F, which read x.
Bind(value, F(_)) == F(value)

\* ------------------------------------------------------------ the manager
GetEmbeddingModel(w) ==
    IF w.embedding_model # "None" THEN w
    ELSE LET w1 == Logged(w, "load_model", <<>>)
         IN  IF model_status = "load_fails" THEN Raise(w1)
             ELSE [w1 EXCEPT !.embedding_model = "loaded"]

\* CacheUsable without the comparison of the row count with the catalog.
CacheUsable_anyRows(c, names) == c.kind = "array" /\ c.ndim = 2

CacheUsable(c, names) == c.kind = "array" /\ c.ndim = 2 /\ Len(c.rows) = Len(names)

\* Recompute with the failure of the bulk encoding swallowed: it returns
\* without a matrix instead of raising.
Recompute_swallow(w, names) ==
    Bind(GetEmbeddingModel(w), LAMBDA w1 :
        IF w1.raised THEN w1
        ELSE IF model_status = "encode_fails" THEN Logged(w1, "encode_bulk", <<>>)
        ELSE Bind(EncodeAll(names), LAMBDA m :
                 [Logged(Logged(w1, "encode_bulk", <<>>), "write_cache", <<>>)
                     EXCEPT !.cache_file = CacheArray(m),
                            !.embeddings = Matrix(m),
                            !.vector_dim = Dim]))

\* Recompute without np.save: the matrix is adopted and never persisted.
Recompute_noSave(w, names) ==
    Bind(GetEmbeddingModel(w), LAMBDA w1 :
        IF w1.raised THEN w1
        ELSE IF model_status = "encode_fails" THEN Raise(Logged(w1, "encode_bulk", <<>>))
        ELSE Bind(EncodeAll(names), LAMBDA m :
                 [Logged(w1, "encode_bulk", <<>>)
                     EXCEPT !.embeddings = Matrix(m),
                            !.vector_dim = Dim]))

\* Lines 153-168: encode the whole catalog, save it, adopt it.
Recompute(w, names) ==
    Bind(GetEmbeddingModel(w), LAMBDA w1 :
        IF w1.raised THEN w1
        ELSE IF model_status = "encode_fails" THEN Raise(Logged(w1, "encode_bulk", <<>>))
        ELSE Bind(EncodeAll(names), LAMBDA m :
                 [Logged(Logged(w1, "encode_bulk", <<>>), "write_cache", <<>>)
                     EXCEPT !.cache_file = CacheArray(m),
                            !.embeddings = Matrix(m),
                            !.vector_dim = Dim]))

\* EnsureEmbeddings without the early return of lines 131-132: a matrix held
\* in memory does not stop the cache artifact from being read again.
EnsureEmbeddings_noEarlyReturn(w, names, force_rebuild) ==
    IF names = <<>> THEN [w EXCEPT !.embeddings = NoMatrix, !.vector_dim = 0]
    ELSE IF ~force_rebuild /\ w.cache_file.kind # "missing"
         THEN IF CacheUsable(w.cache_file, names)
              THEN [Logged(Logged(w, "read_cache", <<>>), "adopt_cache", <<>>)
                       EXCEPT !.embeddings = Matrix(w.cache_file.rows), !.vector_dim = Dim]
              ELSE Recompute(Logged(w, "read_cache", <<>>), names)
    ELSE Recompute(w, names)

EnsureEmbeddings(w, names, force_rebuild) ==
    IF names = <<>> THEN [w EXCEPT !.embeddings = NoMatrix, !.vector_dim = 0]
    ELSE IF w.embeddings.present /\ ~force_rebuild THEN w
    ELSE IF ~force_rebuild /\ w.cache_file.kind # "missing"
         THEN IF CacheUsable(w.cache_file, names)
              THEN [Logged(Logged(w, "read_cache", <<>>), "adopt_cache", <<>>)
                       EXCEPT !.embeddings = Matrix(w.cache_file.rows), !.vector_dim = Dim]
              ELSE Recompute(Logged(w, "read_cache", <<>>), names)
    ELSE Recompute(w, names)

\* BuildVectorIndex with index.add(self._embeddings[1:]): the first row is
\* left out of the index.
BuildVectorIndex_withoutFirstRow(w, names, force_rebuild) ==
    IF names = <<>> THEN [w EXCEPT !.vector_index = NoMatrix, !.embeddings = NoMatrix]
    ELSE Bind(EnsureEmbeddings(w, names, force_rebuild), LAMBDA w1 :
             IF w1.raised THEN w1
             ELSE IF ~w1.embeddings.present THEN [w1 EXCEPT !.vector_index = NoMatrix]
             ELSE IF faiss
                  THEN Logged([w1 EXCEPT !.vector_index = Matrix(Tail(w1.embeddings.rows))],
                              "build_index", <<>>)
                  ELSE [w1 EXCEPT !.vector_index = NoMatrix])

BuildVectorIndex(w, names, force_rebuild) ==
    IF names = <<>> THEN [w EXCEPT !.vector_index = NoMatrix, !.embeddings = NoMatrix]
    ELSE Bind(EnsureEmbeddings(w, names, force_rebuild), LAMBDA w1 :
             IF w1.raised THEN w1
             ELSE IF ~w1.embeddings.present THEN [w1 EXCEPT !.vector_index = NoMatrix]
             ELSE IF faiss
                  THEN Logged([w1 EXCEPT !.vector_index = w1.embeddings], "build_index", <<>>)
                  ELSE [w1 EXCEPT !.vector_index = NoMatrix])

\* Before, with the scores in ascending order (a sort without the negation).
Before_ascending(m, q, tie, i, j) ==
    \/ Dot(m[i], q) < Dot(m[j], q)
    \/ Dot(m[i], q) = Dot(m[j], q) /\ (IF tie = "low" THEN i < j ELSE i > j)

\* Row i comes before row j in the result of a search: by descending score,
\* equal scores in the order the library leaves them.
Before(m, q, tie, i, j) ==
    \/ Dot(m[i], q) > Dot(m[j], q)
    \/ Dot(m[i], q) = Dot(m[j], q) /\ (IF tie = "low" THEN i < j ELSE i > j)

Rank(m, q, tie, i) == Cardinality({j \in DOMAIN m : Before(m, q, tie, j, i)}) + 1

\* The top_k <<row, score>> pairs of matrix m for query vector q.
TopK(m, q, top_k, tie) ==
    LET n == IF Len(m) < top_k THEN Len(m) ELSE top_k
        at(r) == CHOOSE i \in DOMAIN m : Rank(m, q, tie, i) = r
    IN  [r \in 1..n |-> <<at(r), Dot(m[at(r)], q)>>]

\* self._vector_index.search(query_embedding, top_k), zipped (lines 215-216).
IndexSearch(index_rows, q, top_k) == TopK(index_rows, q, top_k, tie_faiss)

\* np.dot, np.argsort(-similarities)[:top_k] and the list built (lines 221-223).
ArgsortSearch(rows, q, top_k) == TopK(rows, q, top_k, tie_numpy)

\* VectorSearch with the lazy construction of the index moved after the
\* search: the call that builds the index answers from the matrix.
VectorSearch_searchBeforeBuild(w, names, query_text, top_k) ==
    IF names = <<>> THEN [w |-> w, results |-> <<>>]
    ELSE
    Bind(EnsureEmbeddings(w, names, FALSE), LAMBDA w1 :
    IF w1.raised THEN [w |-> w1, results |-> <<>>] ELSE
    Bind(GetEmbeddingModel(w1), LAMBDA w2 :
    IF w2.raised THEN [w |-> w2, results |-> <<>>] ELSE
    Bind(Logged(w2, "encode_query", query_text), LAMBDA w3 :
    IF model_status = "encode_fails" THEN [w |-> Raise(w3), results |-> <<>>] ELSE
    Bind(Encode(query_text), LAMBDA query_embedding :
    IF w3.vector_index.present
    THEN [w |-> Logged(w3, "search", query_text),
          results |-> IndexSearch(w3.vector_index.rows, query_embedding, top_k)]
    ELSE IF ~w3.embeddings.present THEN [w |-> w3, results |-> <<>>]
    ELSE [w |-> Logged(IF faiss THEN BuildVectorIndex(w3, names, FALSE) ELSE w3,
                       "search", query_text),
          results |-> ArgsortSearch(w3.embeddings.rows, query_embedding, top_k)]))))

\* Returns the world after the call and the result list.
VectorSearch(w, names, query_text, top_k) ==
    IF names = <<>> THEN [w |-> w, results |-> <<>>]
    ELSE
    Bind(EnsureEmbeddings(w, names, FALSE), LAMBDA w1 :
    IF w1.raised THEN [w |-> w1, results |-> <<>>] ELSE
    Bind(GetEmbeddingModel(w1), LAMBDA w2 :
    IF w2.raised THEN [w |-> w2, results |-> <<>>] ELSE
    Bind(Logged(w2, "encode_query", query_text), LAMBDA w3 :
    IF model_status = "encode_fails" THEN [w |-> Raise(w3), results |-> <<>>] ELSE
    Bind(Encode(query_text), LAMBDA query_embedding :
    Bind(IF faiss /\ ~w3.vector_index.present THEN BuildVectorIndex(w3, names, FALSE) ELSE w3,
         LAMBDA w4 :
    IF w4.raised THEN [w |-> w4, results |-> <<>>]
    ELSE IF w4.vector_index.present
         THEN [w |-> Logged(w4, "search", query_text),
               results |-> IndexSearch(w4.vector_index.rows, query_embedding, top_k)]
    ELSE IF ~w4.embeddings.present THEN [w |-> w4, results |-> <<>>]
    ELSE [w |-> Logged(w4, "search", query_text),
          results |-> ArgsortSearch(w4.embeddings.rows, query_embedding, top_k)])))))

\* SearchLoop without the early exit: every variant is searched and the best
\* score over all of them wins.
RECURSIVE SearchLoop_noEarlyExit(_, _, _, _, _)
SearchLoop_noEarlyExit(acc, names, candidates, i, score_cutoff) ==
    IF i > Len(candidates) THEN acc
    ELSE
    Bind(VectorSearch(acc.w, names, candidates[i], 3), LAMBDA r :
    IF r.w.raised THEN [acc EXCEPT !.w = r.w]
    ELSE IF r.results = <<>>
         THEN SearchLoop_noEarlyExit([acc EXCEPT !.w = r.w], names, candidates, i + 1,
                                     score_cutoff)
    ELSE
    Bind(IF r.results[1][2] > acc.best_score
         THEN [w |-> r.w, best_idx |-> r.results[1][1], best_score |-> r.results[1][2],
               used_query |-> candidates[i]]
         ELSE [acc EXCEPT !.w = r.w],
         LAMBDA next :
    SearchLoop_noEarlyExit(next, names, candidates, i + 1, score_cutoff)))

\* for text in search_text_candidates (lines 256-267), from candidate i on.
\* acc carries the world and best_idx (0 for None), best_score, used_query.
RECURSIVE SearchLoop(_, _, _, _, _)
SearchLoop(acc, names, candidates, i, score_cutoff) ==
    IF i > Len(candidates) THEN acc
    ELSE
    Bind(VectorSearch(acc.w, names, candidates[i], 3), LAMBDA r :
    IF r.w.raised THEN [acc EXCEPT !.w = r.w]
    ELSE IF r.results = <<>>
         THEN SearchLoop([acc EXCEPT !.w = r.w], names, candidates, i + 1, score_cutoff)
    ELSE
    Bind(r.results[1][1], LAMBDA idx :
    Bind(r.results[1][2], LAMBDA score :
    Bind(IF score > acc.best_score
         THEN [w |-> r.w, best_idx |-> idx, best_score |-> score, used_query |-> candidates[i]]
         ELSE [acc EXCEPT !.w = r.w],
         LAMBDA next :
    IF score >= score_cutoff THEN next
    ELSE SearchLoop(next, names, candidates, i + 1, score_cutoff)))))

\* SearchTextCandidates, with the original form put before the lowercase form.
SearchTextCandidates_originalFirst(normalized_query) ==
    LET lower == Lower(normalized_query)
        first == IF normalized_query # <<>> THEN <<normalized_query>> ELSE <<>>
    IN  IF \E k \in DOMAIN first : first[k] = lower
        THEN first ELSE Append(first, lower)

\* search_text_candidates (lines 246-250)
SearchTextCandidates(normalized_query) ==
    LET lower == Lower(normalized_query)
        first == IF lower # <<>> THEN <<lower>> ELSE <<>>
    IN  IF \E k \in DOMAIN first : first[k] = normalized_query
        THEN first ELSE Append(first, normalized_query)

\* Canonical without the alias map: the catalog name itself is returned.
Canonical_identity(alias_map, name) == name

\* dict.get(name, name) on the alias map (line 284)
Canonical(alias_map, name) ==
    IF name \in DOMAIN alias_map THEN alias_map[name] ELSE name

Returned(value) == [kind |-> "return", value |-> value]
Raised == [kind |-> "raise", value |-> None]

\* What a call leaves: the world, the outcome and the locals of the loop.
Outcome(acc, result) ==
    [w |-> acc.w, result |-> result, best_idx |-> acc.best_idx,
     best_score |-> acc.best_score, used_query |-> acc.used_query]

\* FindBestMatch with the final comparison reversed (best_score > threshold
\* gives None).
FindBestMatch_flipped(w, names, alias_map, user_query, score_cutoff) ==
    Bind([w |-> w, best_idx |-> 0, best_score |-> -100, used_query |-> None], LAMBDA start :
    IF names = <<>> THEN Outcome(start, Returned(None)) ELSE
    Bind(Strip(IF user_query = None THEN <<>> ELSE user_query), LAMBDA normalized_query :
    IF normalized_query = <<>> THEN Outcome(start, Returned(None)) ELSE
    Bind(SearchLoop(start, names, SearchTextCandidates(normalized_query), 1, score_cutoff),
         LAMBDA acc :
    IF acc.w.raised THEN Outcome(acc, Raised)
    ELSE IF acc.best_idx = 0 THEN Outcome(acc, Returned(None))
    ELSE IF acc.best_score > score_cutoff THEN Outcome(acc, Returned(None))
    ELSE Outcome(acc, Returned(Canonical(alias_map, names[acc.best_idx]))))))

\* FindBestMatch without the rejection of a blank query (lines 238-240).
FindBestMatch_noBlankCheck(w, names, alias_map, user_query, score_cutoff) ==
    Bind([w |-> w, best_idx |-> 0, best_score |-> -100, used_query |-> None], LAMBDA start :
    IF names = <<>> THEN Outcome(start, Returned(None)) ELSE
    Bind(Strip(IF user_query = None THEN <<>> ELSE user_query), LAMBDA normalized_query :
    Bind(SearchLoop(start, names, SearchTextCandidates(normalized_query), 1, score_cutoff),
         LAMBDA acc :
    IF acc.w.raised THEN Outcome(acc, Raised)
    ELSE IF acc.best_idx = 0 THEN Outcome(acc, Returned(None))
    ELSE IF acc.best_score < score_cutoff THEN Outcome(acc, Returned(None))
    ELSE Outcome(acc, Returned(Canonical(alias_map, names[acc.best_idx]))))))

\* find_best_match(user_query, score_cutoff) on world w: the world after the
\* call, its outcome, and the locals best_idx, best_score and used_query.
FindBestMatch(w, names, alias_map, user_query, score_cutoff) ==
    Bind([w |-> w, best_idx |-> 0, best_score |-> -100, used_query |-> None], LAMBDA start :
    IF names = <<>> THEN Outcome(start, Returned(None)) ELSE
    Bind(Strip(IF user_query = None THEN <<>> ELSE user_query), LAMBDA normalized_query :
    IF normalized_query = <<>> THEN Outcome(start, Returned(None)) ELSE
    Bind(SearchLoop(start, names, SearchTextCandidates(normalized_query), 1, score_cutoff),
         LAMBDA acc :
    IF acc.w.raised THEN Outcome(acc, Raised)
    ELSE IF acc.best_idx = 0 THEN Outcome(acc, Returned(None))
    ELSE IF acc.best_score < score_cutoff THEN Outcome(acc, Returned(None))
    ELSE Outcome(acc, Returned(Canonical(alias_map, names[acc.best_idx]))))))

\* --------------------------------------------------------------- artifacts
EmptyMap == [x \in {} |-> <<>>]

\* The key "alias_to_en" of the mapping artifact, as a text.
AliasKey == <<"alias_to_en">>

\* The alias-mapping artifact (skin_name_mapping.json).  A JSON object is
\* given by flat, its string-valued top-level entries, and nested, the
\* value of its "alias_to_en" entry when that value is an object.
MapMissing == [kind |-> "missing", flat |-> EmptyMap, nested |-> [present |-> FALSE, map |-> EmptyMap]]
MapUnparseable == [kind |-> "unparseable", flat |-> EmptyMap, nested |-> [present |-> FALSE, map |-> EmptyMap]]
MapNotObject == [kind |-> "array", flat |-> EmptyMap, nested |-> [present |-> FALSE, map |-> EmptyMap]]
MapFlat(m) == [kind |-> "object", flat |-> m, nested |-> [present |-> FALSE, map |-> EmptyMap]]
MapNested(m, others) == [kind |-> "object", flat |-> others, nested |-> [present |-> TRUE, map |-> m]]

\* {name: name for name in names}
IdentityOn(names) == [n \in {names[i] : i \in DOMAIN names} |-> n]

\* The entries _load_alias_mapping reads from the artifact (lines 88-104).
ArtifactEntries(mf) ==
    IF mf.kind # "object" THEN EmptyMap
    ELSE IF mf.nested.present THEN mf.nested.map
    ELSE mf.flat

\* LoadAliasMapping with alias_map[name] = name in place of setdefault: the
\* catalog names overwrite the entries of the artifact.
LoadAliasMapping_overwrite(mf, names) ==
    LET alias_map == ArtifactEntries(mf)
        id == IdentityOn(names)
    IN  [k \in DOMAIN alias_map \cup DOMAIN id |->
            IF k \in DOMAIN id THEN id[k] ELSE alias_map[k]]

\* LoadAliasMapping without the setdefault loop of lines 109-110: the catalog
\* names are added only when the artifact gives no entries.
LoadAliasMapping_noInjection(mf, names) ==
    LET alias_map == ArtifactEntries(mf)
        id == IdentityOn(names)
    IN  IF DOMAIN alias_map = {} THEN id ELSE alias_map

\* _load_alias_mapping: the value it gives self.alias_to_canonical.
LoadAliasMapping(mf, names) ==
    LET alias_map == ArtifactEntries(mf)
        id == IdentityOn(names)
    IN  IF DOMAIN alias_map = {} THEN id
        ELSE [k \in DOMAIN alias_map \cup DOMAIN id |->
                 IF k \in DOMAIN alias_map THEN alias_map[k] ELSE id[k]]

\* self.skin_names = [line.strip() for line in f if line.strip()], [] when
\* the file is not found (lines 64-77).
RECURSIVE NonBlankStripped(_)
NonBlankStripped(ls) ==
    IF ls = <<>> THEN <<>>
    ELSE IF Strip(Head(ls)) = <<>> THEN NonBlankStripped(Tail(ls))
    ELSE <<Strip(Head(ls))>> \o NonBlankStripped(Tail(ls))

\* LoadSkinNames without the filter "if line.strip()".
LoadSkinNames_keepBlank(cf) ==
    IF cf.exists THEN [k \in DOMAIN cf.lines |-> Strip(cf.lines[k])] ELSE <<>>

LoadSkinNames(cf) == IF cf.exists THEN NonBlankStripped(cf.lines) ELSE <<>>

\* ------------------------------------------------------ update_skin_list
\* A feed is the answer to one download: ok is FALSE when the request or the
\* JSON parsing fails, items is the JSON object in document order, each item
\* with its id and its raw market_hash_name, market_name and name (None when
\* absent).
FeedFailed == [ok |-> FALSE, items |-> <<>>]
FeedOf(items) == [ok |-> TRUE, items |-> items]
Item(id, market_hash_name, market_name, name) ==
    [id |-> id, raw |-> <<market_hash_name, market_name, name>>]

Contains(seq, x) == \E k \in DOMAIN seq : seq[k] = x

\* candidates of one item (lines 39-53): stripped, non-empty, first-seen order.
RECURSIVE Candidates(_, _)
Candidates(raw, seen) ==
    IF raw = <<>> THEN seen
    ELSE LET name == Head(raw)
             normalized == Strip(name)
         IN  IF name = None \/ name = <<>> THEN Candidates(Tail(raw), seen)
             ELSE IF normalized # <<>> /\ ~Contains(seen, normalized)
                  THEN Candidates(Tail(raw), Append(seen, normalized))
             ELSE Candidates(Tail(raw), seen)

\* WithAliases with alias_map.setdefault(alias, base_name): a name that is
\* already a key keeps its value.
WithAliases_keepFirst(alias_map, candidates, base_name) ==
    [k \in DOMAIN alias_map \cup {candidates[i] : i \in DOMAIN candidates} |->
        IF k \in DOMAIN alias_map THEN alias_map[k] ELSE base_name]

\* alias_map[alias] = base_name for alias in candidates (lines 68-69)
WithAliases(alias_map, candidates, base_name) ==
    [k \in DOMAIN alias_map \cup {candidates[i] : i \in DOMAIN candidates} |->
        IF Contains(candidates, k) THEN base_name ELSE alias_map[k]]

\* The loop over the items of one feed (lines 38-69); acc holds
\* all_skin_names, alias_map and english_primary_by_id.
RECURSIVE ProcessItems(_, _, _)
ProcessItems(acc, locale, items) ==
    IF items = <<>> THEN acc
    ELSE
    Bind(Head(items), LAMBDA item :
    Bind(Candidates(item.raw, <<>>), LAMBDA candidates :
    IF candidates = <<>> THEN ProcessItems(acc, locale, Tail(items)) ELSE
    Bind(candidates[1], LAMBDA primary_en :
    Bind(IF locale = "en" THEN primary_en
         ELSE IF item.id \in DOMAIN acc.english_primary_by_id
              THEN acc.english_primary_by_id[item.id]
         ELSE primary_en,
         LAMBDA base_name :
    ProcessItems(
        [all_skin_names |-> acc.all_skin_names \o candidates,
         alias_map |-> WithAliases(acc.alias_map, candidates, base_name),
         english_primary_by_id |->
             IF locale = "en"
             THEN [k \in DOMAIN acc.english_primary_by_id \cup {item.id} |->
                      IF k = item.id THEN primary_en ELSE acc.english_primary_by_id[k]]
             ELSE acc.english_primary_by_id],
        locale, Tail(items))))))

ProcessFeed(acc, locale, feed) ==
    IF feed.ok THEN ProcessItems(acc, locale, feed.items) ELSE acc

\* list(dict.fromkeys(names)): first occurrences, in order.
RECURSIVE Unique(_, _)
Unique(names, seen) ==
    IF names = <<>> THEN seen
    ELSE IF Contains(seen, Head(names)) THEN Unique(Tail(names), seen)
    ELSE Unique(Tail(names), Append(seen, Head(names)))

\* update_skin_list() with the two downloads answering en and zh: the
\* catalog and mapping artifacts it leaves, given the ones it finds.
UpdateSkinList(cf, mf, en, zh) ==
    Bind(ProcessFeed(ProcessFeed([all_skin_names |-> <<>>, alias_map |-> EmptyMap,
                                  english_primary_by_id |-> EmptyMap], "en", en), "zh-CN", zh),
         LAMBDA acc :
    Bind(Unique(acc.all_skin_names, <<>>), LAMBDA unique_skin_names :
    IF unique_skin_names = <<>>
    THEN [catalog_file |-> cf, mapping_file |-> mf]
    ELSE [catalog_file |-> FileOf(unique_skin_names),
          mapping_file |-> MapNested(acc.alias_map, EmptyMap)]))

\* ------------------------------------------------------------ input pools
\* Lines a catalog artifact is made of.
Lines == {<<" ">>, <<"A">>, <<" ", "A", "A", " ">>}

RECURSIVE SeqsUpTo(_, _)
SeqsUpTo(S, n) ==
    IF n = 0 THEN {<<>>}
    ELSE LET shorter == SeqsUpTo(S, n - 1)
         IN  shorter \cup {Append(t, x) : t \in {u \in shorter : Len(u) = n - 1}, x \in S}

CatalogFiles == {FileMissing} \cup {FileOf(ls) : ls \in SeqsUpTo(Lines, MaxLines)}

Fn1(k, v) == [x \in {k} |-> v]
Fn2(k1, v1, k2, v2) == [x \in {k1, k2} |-> IF x = k1 THEN v1 ELSE v2]

MappingFiles ==
    {MapMissing, MapUnparseable, MapNotObject, MapFlat(EmptyMap), MapNested(EmptyMap, EmptyMap),
     MapFlat(Fn1(<<"A">>, <<"a", "a">>)),
     MapFlat(Fn2(AliasKey, <<"A">>, <<"A", "A">>, <<"A">>)),
     MapNested(Fn2(<<"A">>, <<"a", "a">>, <<"a">>, <<"a">>), Fn1(<<"A", "A">>, <<"A">>))}

\* The artifact saved for the catalog whose two lines are both "A".
CacheTied == CacheArray(EncodeAll(<< <<"A">>, <<"A">> >>))

CacheFiles ==
    {CacheMissing, CacheUnreadable, CacheOneDim,
     CacheArray(EncodeAll(<< <<"A">> >>)), CacheArray(EncodeAll(<< <<"A", "A">> >>)),
     CacheArray(EncodeAll(<< <<"A">>, <<"A", "A">> >>))}

EnFeeds == {FeedFailed, FeedOf(<< Item("1", <<"A">>, None, <<" ", "A">>) >>)}

ZhFeeds ==
    {FeedFailed,
     FeedOf(<< Item("1", <<"A", "A">>, <<"A">>, None), Item("2", <<" ">>, <<>>, <<"a", "a">>) >>)}

\* user_query: None, or a text of at most MaxQueryLen characters.
Queries == {None} \cup TextsUpTo(MaxQueryLen)

\* The queries of the calls made while the embedding model is unavailable:
\* such a call raises at the same statement whatever its non-blank text, so
\* the shorter texts stand for all.
QueriesWhileFailing == {None} \cup TextsUpTo(MaxQueryLen - 1)

\* score_cutoff
Cutoffs == {0, 50, 100}

\* ------------------------------------------------------------------- state
\* The costly operations of a manager: the construction of the model (line
\* 117), the encoding of the whole catalog (155), the reading (138) and the
\* writing (164) of the cache artifact, the construction of the index (185).
Operations == {"load_model", "encode_bulk", "read_cache", "write_cache", "build_index"}

\* Nothing done yet since the manager was created.
NonePerformed == [o \in Operations |-> "never"]

\* How often an operation has been done after n more completions.
After(times, n) ==
    IF n = 0 THEN times
    ELSE IF times = "never" /\ n = 1 THEN "once"
    ELSE "repeated"

\* The number of times a call with this log completed operation o; the
\* operation an exception came from is the last of the log and did not complete.
Completed(log, raised, o) ==
    Cardinality({k \in DOMAIN log : log[k].ev = o /\ ~(raised /\ k = Len(log))})

Tally(done, w) == [o \in Operations |-> After(done[o], Completed(w.log, w.raised, o))]

\* No call is in progress on a concurrent caller.
NoThreads == <<>>

\* No agent has been created.
NoAgent == conversation_history = <<>> /\ runs = <<>> /\ started = 0

NoCall ==
    [op |-> "none", user_query |-> None, score_cutoff |-> 0, rebuild_index |-> FALSE,
     refresh_data |-> FALSE, result |-> Returned(None), log |-> <<>>,
     best_idx |-> 0, best_score |-> -100, used_query |-> None,
     en |-> FeedFailed, zh |-> FeedFailed]

Fresh ==
    /\ skin_names' = <<>>
    /\ alias_to_canonical' = EmptyMap
    /\ embedding_model' = "None"
    /\ embeddings' = NoMatrix
    /\ vector_dim' = 0
    /\ vector_index' = NoMatrix
    /\ performed' = NonePerformed

InitManager ==
    /\ alive = FALSE
    /\ skin_names = <<>>
    /\ alias_to_canonical = EmptyMap
    /\ embedding_model = "None"
    /\ embeddings = NoMatrix
    /\ vector_dim = 0
    /\ vector_index = NoMatrix
    /\ last = NoCall
    /\ performed = NonePerformed
    /\ threads = NoThreads

\* A catalog artifact none of whose lines is blank; its lines are read once,
\* by the constructor, and the blank ones are dropped there.
NoBlankLine(cf) == \A k \in DOMAIN cf.lines : Strip(cf.lines[k]) # <<>>

\* Any catalog artifact with any cache artifact, or a catalog artifact
\* without blank lines with one of: any mapping artifact, any cache artifact
\* with or without faiss, the other order of equal scores in the library in
\* use (the order of the other library is never read).
Init ==
    /\ catalog_file \in CatalogFiles
    /\ mapping_file \in MappingFiles
    /\ cache_file \in CacheFiles \cup {CacheTied}
    /\ model_status = "ok"
    /\ faiss \in BOOLEAN
    /\ tie_faiss \in {"low", "high"}
    /\ tie_numpy \in {"low", "high"}
    /\ IF faiss THEN tie_numpy = "low" ELSE tie_faiss = "low"
    /\ \/ mapping_file = MapMissing /\ cache_file \in CacheFiles /\ faiss /\ tie_faiss = "low"
       \/ NoBlankLine(catalog_file) /\ cache_file = CacheMissing /\ faiss /\ tie_faiss = "low"
       \/ NoBlankLine(catalog_file) /\ mapping_file = MapMissing /\ cache_file \in CacheFiles
                                    /\ tie_faiss = "low" /\ tie_numpy = "low"
       \/ NoBlankLine(catalog_file) /\ mapping_file = MapMissing
                                    /\ cache_file \in {CacheMissing, CacheTied}
                                    /\ (tie_faiss = "high" \/ tie_numpy = "high")
    /\ InitManager
    /\ NoAgent

Env == <<model_status, faiss, tie_faiss, tie_numpy>>

\* SkinNameManager(skin_list_filepath, rebuild_index=..., refresh_data=...),
\* the two downloads of update_skin_list answering en and zh.
Construct(rebuild_index, refresh_data, en, zh) ==
    /\ ~alive
    /\ last.op = "none"
    /\ \E files \in {IF refresh_data THEN UpdateSkinList(catalog_file, mapping_file, en, zh)
                     ELSE [catalog_file |-> catalog_file, mapping_file |-> mapping_file]} :
       \E names \in {LoadSkinNames(files.catalog_file)} :
       \E w \in {IF rebuild_index THEN BuildVectorIndex(World, names, refresh_data) ELSE World} :
        /\ catalog_file' = files.catalog_file
        /\ mapping_file' = files.mapping_file
        /\ cache_file' = w.cache_file
        /\ IF w.raised
           THEN alive' = FALSE /\ Fresh
           ELSE /\ alive' = TRUE
                /\ skin_names' = names
                /\ alias_to_canonical' = LoadAliasMapping(files.mapping_file, names)
                /\ embedding_model' = w.embedding_model
                /\ embeddings' = w.embeddings
                /\ vector_dim' = w.vector_dim
                /\ vector_index' = w.vector_index
                /\ performed' = Tally(NonePerformed, w)
        /\ last' = [NoCall EXCEPT !.op = "init", !.rebuild_index = rebuild_index,
                                  !.refresh_data = refresh_data, !.log = w.log,
                                  !.en = IF refresh_data THEN en ELSE FeedFailed,
                                  !.zh = IF refresh_data THEN zh ELSE FeedFailed,
                                  !.result = IF w.raised THEN Raised ELSE Returned(None)]
        /\ UNCHANGED <<Env, threads, Agent>>

\* manager.find_best_match(user_query, score_cutoff)
Find(user_query, score_cutoff) ==
    /\ alive
    /\ last.op = "none"
    /\ \E r \in {FindBestMatch(World, skin_names, alias_to_canonical, user_query, score_cutoff)} :
        /\ embedding_model' = r.w.embedding_model
        /\ embeddings' = r.w.embeddings
        /\ vector_dim' = r.w.vector_dim
        /\ vector_index' = r.w.vector_index
        /\ cache_file' = r.w.cache_file
        /\ performed' = Tally(performed, r.w)
        /\ last' = [NoCall EXCEPT !.op = "find_best_match", !.user_query = user_query,
                                  !.score_cutoff = score_cutoff, !.result = r.result,
                                  !.log = r.w.log, !.best_idx = r.best_idx,
                                  !.best_score = r.best_score, !.used_query = r.used_query]
        /\ UNCHANGED <<catalog_file, mapping_file, alive, skin_names, alias_to_canonical>>
        /\ UNCHANGED <<Env, threads, Agent>>

\* The process ends; the artifacts stay.
EndSession ==
    /\ alive
    /\ last.op = "none"
    /\ alive' = FALSE
    /\ Fresh
    /\ last' = NoCall
    /\ UNCHANGED <<catalog_file, mapping_file, cache_file>>
    /\ UNCHANGED <<Env, threads, Agent>>

\* The embedding model becomes unavailable (its files, its device, its
\* memory) or available again, between two calls.  A model that is already
\* constructed is never constructed again, so the loss of its files is
\* taken to happen while none is held: it shows at the next construction.
ModelChanges(status) ==
    /\ last.op = "none"
    /\ status # model_status
    /\ status = "load_fails" => embedding_model = "None"
    /\ model_status' = status
    /\ UNCHANGED <<catalog_file, mapping_file, cache_file, faiss, tie_faiss, tie_numpy, alive,
                   skin_names, alias_to_canonical, embedding_model, embeddings, vector_dim,
                   vector_index, last, performed, threads, Agent>>

\* The caller takes the outcome of the call and goes on (the tool functions
\* of register_tools.py, the start-up code of main.py).
CallerContinues ==
    /\ last.op # "none"
    /\ last' = NoCall
    /\ UNCHANGED <<catalog_file, mapping_file, cache_file, alive, skin_names, alias_to_canonical,
                   embedding_model, embeddings, vector_dim, vector_index>>
    /\ UNCHANGED <<Env, performed, threads, Agent>>

Next ==
    \/ \E rebuild_index \in BOOLEAN, refresh_data \in BOOLEAN, en \in EnFeeds, zh \in ZhFeeds :
           Construct(rebuild_index, refresh_data, en, zh)
    \/ \E user_query \in (IF model_status = "ok" THEN Queries ELSE QueriesWhileFailing),
          score_cutoff \in Cutoffs : Find(user_query, score_cutoff)
    \/ CallerContinues
    \/ EndSession
    \/ \E status \in {"ok", "load_fails", "encode_fails"} : ModelChanges(status)

Spec == Init /\ [][Next]_vars

\* ------------------------------------------------- the refresh job alone
\* Answers of the two downloads with items that share names, items without
\* names and items of one locale only.
EnFeedsWide ==
    EnFeeds \cup
    {FeedOf(<< Item("1", <<"A">>, None, <<"a", "a">>), Item("2", <<"A", "A">>, None, <<"A">>) >>),
     FeedOf(<< Item("1", <<" ">>, <<>>, <<"A", " ">>), Item("2", None, None, None) >>),
     FeedOf(<< Item("1", <<"A">>, None, None), Item("2", <<"A", "A">>, None, None) >>)}

ZhFeedsWide ==
    ZhFeeds \cup
    {FeedOf(<< Item("1", <<"a">>, None, None), Item("2", <<"A">>, None, None) >>),
     FeedOf(<< Item("3", <<"A", "a">>, None, <<"A", "a">>) >>),
     FeedOf(<< Item("2", <<"a", "A">>, None, None), Item("1", None, <<"a", "A">>, <<"a">>) >>)}

\* A mapping artifact in which an alias leads to a name that is itself an
\* alias of another name.
MapChained == MapFlat(Fn2(<<"A">>, <<"A", "A">>, <<"A", "A">>, <<"a">>))

\* Any catalog artifact, a mapping artifact, no cache artifact.
UpdateInit ==
    /\ catalog_file \in CatalogFiles
    /\ mapping_file \in MappingFiles \cup {MapChained}
    /\ cache_file = CacheMissing
    /\ model_status = "ok"
    /\ faiss = TRUE
    /\ tie_faiss = "low"
    /\ tie_numpy = "low"
    /\ InitManager
    /\ NoAgent

\* Managers constructed without index construction, with and without the
\* refresh of the catalog and mapping artifacts.
UpdateNext ==
    \/ \E refresh_data \in BOOLEAN, en \in EnFeedsWide, zh \in ZhFeedsWide :
           Construct(FALSE, refresh_data, en, zh)
    \/ CallerContinues
    \/ EndSession

UpdateSpec == UpdateInit /\ [][UpdateNext]_vars

\* ------------------------------------------- the two searches side by side
\* Query vectors and embedding matrices of one to MaxLines rows: unit vectors.
QueryVectors == {UnitVectors[k] : k \in DOMAIN UnitVectors}

Matrices == SeqsUpTo(QueryVectors, MaxLines) \ {<<>>}

\* A matrix is held, and an index that was built from it (index.add of line
\* 186); no manager, no artifact.
SearchInit ==
    /\ catalog_file = FileMissing
    /\ mapping_file = MapMissing
    /\ cache_file = CacheMissing
    /\ model_status = "ok"
    /\ faiss = TRUE
    /\ tie_faiss \in {"low", "high"}
    /\ tie_numpy \in {"low", "high"}
    /\ alive = FALSE
    /\ skin_names = <<>>
    /\ alias_to_canonical = EmptyMap
    /\ embedding_model = "loaded"
    /\ embeddings \in {Matrix(m) : m \in Matrices}
    /\ vector_dim = Dim
    /\ vector_index = embeddings
    /\ last = NoCall
    /\ performed = NonePerformed
    /\ threads = NoThreads
    /\ NoAgent

\* The same query vector through lines 214-216 and through lines 221-223,
\* with the top_k of find_best_match.
SearchBoth(q) ==
    /\ last.op = "none"
    /\ last' = [NoCall EXCEPT
                   !.op = "search_both",
                   !.user_query = q,
                   !.result = Returned([index |-> IndexSearch(vector_index.rows, q, 3),
                                        argsort |-> ArgsortSearch(embeddings.rows, q, 3)])]
    /\ UNCHANGED <<catalog_file, mapping_file, cache_file, alive, skin_names, alias_to_canonical,
                   embedding_model, embeddings, vector_dim, vector_index>>
    /\ UNCHANGED <<Env, performed, threads, Agent>>

SearchNext ==
    \/ \E q \in QueryVectors : SearchBoth(q)
    \/ CallerContinues

SearchSpec == SearchInit /\ [][SearchNext]_vars

\* ------------------------------------------------------ concurrent callers
\* Two callers of find_best_match on one manager, each a thread of the host.
\* A thread runs the statements of _vector_search and of the methods it calls
\* one step at a time; between two steps the other thread may run.  The
\* steps are the reads and writes of the fields the threads share and of the
\* cache artifact.
Threads == {1, 2}

ThreadQueries == {<<"a">>, <<"a", "a">>}

\* The cutoff of the callers (the default of find_best_match).
ThreadCutoff == 50

Idle == [pc |-> "idle", query |-> None, matrix |-> <<>>, result |-> Returned(None)]

At(t, pc) == threads[t].pc = pc

Move(t, pc) == threads' = [threads EXCEPT ![t].pc = pc]

Did(o) == performed' = [performed EXCEPT ![o] = After(@, 1)]

Shared == <<embedding_model, embeddings, vector_dim, vector_index, cache_file>>

Fixed == <<catalog_file, mapping_file, alive, skin_names, alias_to_canonical, last, Env, Agent>>

\* A manager constructed with rebuild_index=False over a catalog with names:
\* no model, no matrix, no index; any cache artifact.
ConcInit ==
    /\ catalog_file \in {cf \in CatalogFiles : LoadSkinNames(cf) # <<>>}
    /\ mapping_file = MapMissing
    /\ cache_file \in CacheFiles
    /\ model_status = "ok"
    /\ faiss \in BOOLEAN
    /\ tie_faiss = "low"
    /\ tie_numpy = "low"
    /\ alive = TRUE
    /\ skin_names = LoadSkinNames(catalog_file)
    /\ alias_to_canonical = LoadAliasMapping(mapping_file, skin_names)
    /\ embedding_model = "None"
    /\ embeddings = NoMatrix
    /\ vector_dim = 0
    /\ vector_index = NoMatrix
    /\ last = NoCall
    /\ performed = NonePerformed
    /\ threads = [t \in Threads |-> Idle]
    /\ NoAgent

\* find_best_match(q) is called: the catalog has names and q is its own
\* lowercase form, so there is one _vector_search (lines 225-256, 198-201).
Call(t, q) ==
    /\ At(t, "idle")
    /\ threads' = [threads EXCEPT ![t] = [Idle EXCEPT !.pc = "ensure", !.query = q]]
    /\ UNCHANGED <<Shared, performed, Fixed>>

\* _ensure_embeddings, lines 131-151: return when a matrix is held, adopt the
\* cache artifact when it is usable, go on to the recomputation otherwise.
Ensure(t) ==
    /\ At(t, "ensure")
    /\ IF embeddings.present
       THEN Move(t, "get_model") /\ UNCHANGED <<Shared, performed>>
       ELSE IF cache_file.kind = "missing"
       THEN Move(t, "bulk_model") /\ UNCHANGED <<Shared, performed>>
       ELSE /\ Did("read_cache")
            /\ IF CacheUsable(cache_file, skin_names)
               THEN /\ embeddings' = Matrix(cache_file.rows)
                    /\ vector_dim' = Dim
                    /\ Move(t, "get_model")
                    /\ UNCHANGED <<embedding_model, vector_index, cache_file>>
               ELSE Move(t, "bulk_model") /\ UNCHANGED Shared
    /\ UNCHANGED Fixed

\* line 153 and line 115: is there a model?
BulkModel(t) ==
    /\ At(t, "bulk_model")
    /\ Move(t, IF embedding_model = "None" THEN "bulk_loading" ELSE "bulk_encode")
    /\ UNCHANGED <<Shared, performed, Fixed>>

\* lines 117-120, called from line 153: the model is constructed and stored.
BulkLoading(t) ==
    /\ At(t, "bulk_loading")
    /\ embedding_model' = "loaded"
    /\ Did("load_model")
    /\ Move(t, "bulk_encode")
    /\ UNCHANGED <<embeddings, vector_dim, vector_index, cache_file, Fixed>>

\* lines 155-161: the catalog is encoded into the local embeddings.
BulkEncode(t) ==
    /\ At(t, "bulk_encode")
    /\ Did("encode_bulk")
    /\ threads' = [threads EXCEPT ![t].pc = "save", ![t].matrix = EncodeAll(skin_names)]
    /\ UNCHANGED <<Shared, Fixed>>

\* lines 163-164: np.save
Save(t) ==
    /\ At(t, "save")
    /\ cache_file' = CacheArray(threads[t].matrix)
    /\ Did("write_cache")
    /\ Move(t, "adopt")
    /\ UNCHANGED <<embedding_model, embeddings, vector_dim, vector_index, Fixed>>

\* lines 167-168
Adopt(t) ==
    /\ At(t, "adopt")
    /\ embeddings' = Matrix(threads[t].matrix)
    /\ vector_dim' = Dim
    /\ Move(t, "get_model")
    /\ UNCHANGED <<embedding_model, vector_index, cache_file, performed, Fixed>>

\* line 203 and line 115
GetModel(t) ==
    /\ At(t, "get_model")
    /\ Move(t, IF embedding_model = "None" THEN "loading" ELSE "encode_query")
    /\ UNCHANGED <<Shared, performed, Fixed>>

\* lines 117-120, called from line 203
Loading(t) ==
    /\ At(t, "loading")
    /\ embedding_model' = "loaded"
    /\ Did("load_model")
    /\ Move(t, "encode_query")
    /\ UNCHANGED <<embeddings, vector_dim, vector_index, cache_file, Fixed>>

\* lines 204-211: the query is encoded; is an index to be built?
EncodeQuery(t) ==
    /\ At(t, "encode_query")
    /\ Move(t, IF faiss /\ ~vector_index.present THEN "build_index" ELSE "search")
    /\ UNCHANGED <<Shared, performed, Fixed>>

\* line 212, lines 171-187: a matrix is held, the index is built from it.
BuildIndex(t) ==
    /\ At(t, "build_index")
    /\ vector_index' = embeddings
    /\ Did("build_index")
    /\ Move(t, "search")
    /\ UNCHANGED <<embedding_model, embeddings, vector_dim, cache_file, Fixed>>

\* lines 214-223, then lines 257-288: the search and the answer.
Search(t) ==
    /\ At(t, "search")
    /\ \E results \in {IF vector_index.present
                         THEN IndexSearch(vector_index.rows, Encode(threads[t].query), 3)
                         ELSE ArgsortSearch(embeddings.rows, Encode(threads[t].query), 3)} :
           threads' = [threads EXCEPT
                          ![t].pc = "done",
                          ![t].result =
                              IF results[1][2] < ThreadCutoff THEN Returned(None)
                              ELSE Returned(Canonical(alias_to_canonical,
                                                      skin_names[results[1][1]]))]
    /\ UNCHANGED <<Shared, performed, Fixed>>

ConcNext ==
    \E t \in Threads :
        \/ \E q \in ThreadQueries : Call(t, q)
        \/ Ensure(t)
        \/ BulkModel(t)
        \/ BulkLoading(t)
        \/ BulkEncode(t)
        \/ Save(t)
        \/ Adopt(t)
        \/ GetModel(t)
        \/ Loading(t)
        \/ EncodeQuery(t)
        \/ BuildIndex(t)
        \/ Search(t)

ConcSpec == ConcInit /\ [][ConcNext]_vars

\* --------------------------------------------------------------- the agent
\* ReActAgent.run is an async generator: it runs from one await to the next
\* without another task of the event loop running in between.  Its only await
\* is the call of the LLM (line 80); a yield hands an event to the consumer,
\* which resumes the generator at once or abandons it.
max_steps == 7

\* Runs started on one agent.
MaxRuns == 3

Questions == {"price", "stock"}

\* The consumers of a run: the loop of main.py, which breaks at an error
\* event, and the handler of server.py, which iterates to the end.
Consumers == {"main", "server"}

\* The final answer of a run (action_input_str of the action Finish).
AnswerOf(q) == <<"answer", q>>

\* The entries of conversation_history; run names the run that appended the
\* entry (it is not part of the dict, it tells equal questions apart).
UserMessage(q, id) == [role |-> "user", content |-> <<q>>, run |-> id]

AssistantMessage(q, id) == [role |-> "assistant", content |-> AnswerOf(q), run |-> id]

\* A caller without a run.  user_msg_index counts from 0, step from 0;
\* before is conversation_history when run was called, popped the entries
\* the run removed, ended the last event of the run, raised whether an
\* IndexError left the generator.
NotRunning ==
    [pc |-> "idle", id |-> 0, user_question |-> "", user_msg_index |-> 0, step |-> 0,
     consumer |-> "none", before |-> <<>>, popped |-> <<>>, ended |-> "none", raised |-> FALSE]

\* list.pop(i) for i >= 0: the list left.
Pop(history, i) == SubSeq(history, 1, i) \o SubSeq(history, i + 2, Len(history))

\* self.conversation_history.pop(user_msg_index) in run r, which then ends
\* with the event how: the history and the run after it.
PopUserMessage(history, r, how) ==
    IF r.user_msg_index >= Len(history)
    THEN [history |-> history,
          run |-> [r EXCEPT !.pc = "done", !.ended = how, !.raised = TRUE]]
    ELSE [history |-> Pop(history, r.user_msg_index),
          run |-> [r EXCEPT !.pc = "done", !.ended = how,
                            !.popped = <<history[r.user_msg_index + 1]>>]]

NotTheAgent == <<catalog_file, mapping_file, cache_file, Env, alive, skin_names, alias_to_canonical,
             embedding_model, embeddings, vector_dim, vector_index, last, performed, threads>>

\* run(user_question) is called and runs to its first await: the user message
\* is appended and its position kept (lines 50-80).
StartRun(c, q, consumer) ==
    /\ runs[c].pc = "idle"
    /\ started < MaxRuns
    /\ started' = started + 1
    /\ conversation_history' = Append(conversation_history, UserMessage(q, started + 1))
    /\ runs' = [runs EXCEPT ![c] =
                   [NotRunning EXCEPT !.pc = "awaiting", !.id = started + 1,
                                      !.user_question = q,
                                      !.user_msg_index = Len(conversation_history),
                                      !.consumer = consumer,
                                      !.before = conversation_history]]
    /\ UNCHANGED NotTheAgent

\* The LLM call failed (lines 86-93) or its output has no Thought/Action/
\* Action Input (lines 98-107): the error event is yielded; the generator
\* goes on to the pop only if the consumer asks for the next event.
ErrorEvent(c) ==
    /\ runs[c].pc = "awaiting"
    /\ IF runs[c].consumer = "main"
       THEN /\ runs' = [runs EXCEPT ![c].pc = "done", ![c].ended = "error"]
            /\ UNCHANGED conversation_history
       ELSE \E after \in {PopUserMessage(conversation_history, runs[c], "error")} :
                /\ conversation_history' = after.history
                /\ runs' = [runs EXCEPT ![c] = after.run]
    /\ UNCHANGED <<started, NotTheAgent>>

\* The action is Finish (lines 109-128): the answer is appended.
Finish(c) ==
    /\ runs[c].pc = "awaiting"
    /\ conversation_history' =
           Append(conversation_history, AssistantMessage(runs[c].user_question, runs[c].id))
    /\ runs' = [runs EXCEPT ![c].pc = "done", ![c].ended = "final"]
    /\ UNCHANGED <<started, NotTheAgent>>

\* Another action (lines 109-115, 130-153): the tool is called, or reported
\* as missing or failing, the observation is yielded, and the loop goes to
\* its next step and the next LLM call; after the last step the user message
\* is popped and the incomplete event yielded (lines 155-160).
Act(c) ==
    /\ runs[c].pc = "awaiting"
    /\ IF runs[c].step + 1 < max_steps
       THEN /\ runs' = [runs EXCEPT ![c].step = @ + 1]
            /\ UNCHANGED conversation_history
       ELSE \E after \in {PopUserMessage(conversation_history, runs[c], "incomplete")} :
                /\ conversation_history' = after.history
                /\ runs' = [runs EXCEPT ![c] = after.run]
    /\ UNCHANGED <<started, NotTheAgent>>

\* The caller has its answer and may ask again.
NextQuestion(c) ==
    /\ runs[c].pc = "done"
    /\ runs' = [runs EXCEPT ![c] = NotRunning]
    /\ UNCHANGED <<conversation_history, started, NotTheAgent>>

\* No manager, no artifacts: the agent alone.
AgentAlone ==
    /\ catalog_file = FileMissing
    /\ mapping_file = MapMissing
    /\ cache_file = CacheMissing
    /\ model_status = "ok"
    /\ faiss = TRUE
    /\ tie_faiss = "low"
    /\ tie_numpy = "low"
    /\ InitManager
    /\ conversation_history = <<>>
    /\ started = 0

\* One caller at a time: the loop of main.py, or requests to the server one
\* after the other.
OneCaller == {1}

AgentInit == AgentAlone /\ runs = [c \in OneCaller |-> NotRunning]

AgentNext ==
    \E c \in OneCaller :
        \/ \E q \in Questions, consumer \in Consumers : StartRun(c, q, consumer)
        \/ ErrorEvent(c)
        \/ Finish(c)
        \/ Act(c)
        \/ NextQuestion(c)

AgentSpec == AgentInit /\ [][AgentNext]_vars

\* Two requests to the server at a time, each a task of the event loop.
Requests == {1, 2}

ServerInit == AgentAlone /\ runs = [c \in Requests |-> NotRunning]

ServerNext ==
    \E c \in Requests :
        \/ \E q \in Questions : StartRun(c, q, "server")
        \/ ErrorEvent(c)
        \/ Finish(c)
        \/ Act(c)
        \/ NextQuestion(c)

ServerSpec == ServerInit /\ [][ServerNext]_vars

\* ================================================================= claims
IsFind == last.op = "find_best_match"
IsInit == last.op = "init"
Returns == last.result.kind = "return"
ReturnsName == Returns /\ last.result.value # None
ReturnsNone == Returns /\ last.result.value = None

HasEv(log, what) == \E k \in DOMAIN log : log[k].ev = what

\* The texts of the similarity searches of the last call, in order.
Searched == LET s == SelectSeq(last.log, LAMBDA e : e.ev = "search")
            IN  [k \in DOMAIN s |-> s[k].text]

\* A query that is None, empty or made of whitespace only.
Blank(q) == q = None \/ \A k \in DOMAIN q : q[k] = " "

\* The query without the whitespace around it, and its lowercase form.
Trimmed(q) ==
    LET first == CHOOSE i \in DOMAIN q : q[i] # " " /\ \A j \in 1..(i - 1) : q[j] = " "
        final == CHOOSE i \in DOMAIN q : q[i] # " " /\ \A j \in (i + 1)..Len(q) : q[j] = " "
    IN  SubSeq(q, first, final)

Lowered(t) == [k \in DOMAIN t |-> IF t[k] = "A" THEN "a" ELSE t[k]]

\* The highest similarity of a text with a row of matrix m.
TopScore(m, text) ==
    CHOOSE s \in {Dot(m[i], Encode(text)) : i \in DOMAIN m} :
        \A i \in DOMAIN m : Dot(m[i], Encode(text)) <= s

\* The highest inner product of query vector q with a row of matrix m.
TopScore2(m, q) ==
    CHOOSE s \in {Dot(m[i], q) : i \in DOMAIN m} : \A i \in DOMAIN m : Dot(m[i], q) <= s

\* A completed find_best_match call with a non-empty catalog and a query that
\* is not blank.
SearchingCall == IsFind /\ Returns /\ skin_names # <<>> /\ ~Blank(last.user_query)

\* C1: with a non-empty catalog and a non-blank query, find_best_match
\* returns a name if and only if the top-1 score of at least one query variant
\* is at least score_cutoff/100; a top score equal to the threshold is a
\* match, and when every variant is below it the result is None.
C1_MatchIffVariantClearsCutoff ==
    SearchingCall =>
        LET t == Trimmed(last.user_query)
        IN  ReturnsName <=>
                \E v \in {Lowered(t), t} : TopScore(embeddings.rows, v) >= last.score_cutoff

\* The lowercase variant is below the threshold, the original form reaches it
\* exactly, and the call returns a name.
C1_Witness ==
    /\ SearchingCall /\ ReturnsName
    /\ Len(Searched) = 2
    /\ last.best_score = last.score_cutoff
    /\ TopScore(embeddings.rows, Searched[1]) < last.score_cutoff

\* C2: the variants are searched in the order lowercase form, then stripped
\* original form when it differs; once a variant's top-1 score reaches the
\* threshold no later variant is searched and the name returned is the top
\* candidate of that variant, even when a later variant scores higher.
C2_FirstVariantToClearWins ==
    SearchingCall =>
        LET t == Trimmed(last.user_query)
            m == embeddings.rows
            cleared(v) == TopScore(m, v) >= last.score_cutoff
        IN  /\ Searched = IF Lowered(t) = t \/ cleared(Lowered(t))
                          THEN <<Lowered(t)>> ELSE <<Lowered(t), t>>
            /\ \A k \in DOMAIN Searched :
                   cleared(Searched[k]) /\ (\A j \in 1..(k - 1) : ~cleared(Searched[j])) =>
                       /\ k = Len(Searched)
                       /\ last.used_query = Searched[k]
                       /\ Dot(m[last.best_idx], Encode(Searched[k])) = TopScore(m, Searched[k])
                       /\ last.result.value = Canonical(alias_to_canonical, skin_names[last.best_idx])

\* The lowercase variant reaches the threshold and is the only one searched,
\* although the original form would have scored higher.
C2_Witness ==
    /\ SearchingCall /\ ReturnsName
    /\ Searched = <<Lowered(Trimmed(last.user_query))>>
    /\ TopScore(embeddings.rows, Trimmed(last.user_query)) > last.best_score

\* The first variant, in search order, whose top-1 score reaches the cutoff;
\* None when no variant does.
FirstToClear(m, q, cutoff) ==
    LET t == Trimmed(q)
    IN  IF TopScore(m, Lowered(t)) >= cutoff THEN Lowered(t)
        ELSE IF TopScore(m, t) >= cutoff THEN t
        ELSE None

\* C3 as written: with score_cutoff = 0, a non-empty catalog and a non-blank
\* query, find_best_match always returns a name, the canonical name of a row
\* with the highest score over all query variants (stated for a matrix that
\* holds the embeddings of the catalog).
C3_CutoffZeroReturnsGlobalTop ==
    SearchingCall /\ last.score_cutoff = 0 /\ embeddings.rows = EncodeAll(skin_names) =>
        LET t == Trimmed(last.user_query)
            m == embeddings.rows
        IN  /\ ReturnsName
            /\ \E i \in DOMAIN m, v \in {Lowered(t), t} :
                   /\ last.result.value = Canonical(alias_to_canonical, skin_names[i])
                   /\ \A j \in DOMAIN m, u \in {Lowered(t), t} :
                          Dot(m[j], Encode(u)) <= Dot(m[i], Encode(v))

\* C3 amended: with score_cutoff = 0, find_best_match returns a name exactly
\* when some variant's top-1 score is at least 0, and the name is then the
\* canonical name of the top row of the first variant, in search order, whose
\* top-1 score is at least 0.
C3_CutoffZeroFirstNonNegative ==
    SearchingCall /\ last.score_cutoff = 0 =>
        LET m == embeddings.rows
            v == FirstToClear(m, last.user_query, 0)
        IN  /\ ReturnsNone <=> v = None
            /\ ReturnsName =>
                   \E i \in DOMAIN m :
                       /\ Dot(m[i], Encode(v)) = TopScore(m, v)
                       /\ last.result.value = Canonical(alias_to_canonical, skin_names[i])

\* With cutoff 0 a candidate was found, its score is negative and the call
\* returns None.
C3_Witness ==
    /\ SearchingCall /\ last.score_cutoff = 0
    /\ ReturnsNone
    /\ last.best_idx # 0 /\ last.best_score < 0

\* The outcome find_best_match(q, c) would have in the current state.
ResultOf(q, c) == FindBestMatch(World, skin_names, alias_to_canonical, q, c).result

\* C4: for a fixed manager state (catalog, alias map, matrix, index) and a
\* fixed query, if find_best_match returns None with cutoff c1 it returns None
\* with every cutoff c2 > c1.  Evaluated in every state in which a manager
\* waits for its next call.
C4_ThresholdMonotone ==
    alive /\ last.op = "none" =>
        \A q \in Queries : \A c1 \in Cutoffs :
            ResultOf(q, c1) = Returned(None) =>
                \A c2 \in Cutoffs : c1 < c2 => ResultOf(q, c2) = Returned(None)

\* A call returned a name, and the same query with a higher cutoff gets None.
C4_Witness ==
    /\ SearchingCall /\ ReturnsName
    /\ \E c2 \in Cutoffs :
           /\ last.score_cutoff < c2
           /\ ResultOf(last.user_query, last.score_cutoff) = last.result
           /\ ResultOf(last.user_query, c2) = Returned(None)

\* The catalog artifact is missing or has no non-blank line.
NoCatalog(cf) == ~cf.exists \/ \A k \in DOMAIN cf.lines : Blank(cf.lines[k])

\* C5: when the catalog artifact is missing or has only blank lines, the
\* constructor does not raise and leaves a catalog of zero entries, and every
\* find_best_match call returns None without constructing the model, encoding,
\* or reading or writing the cache artifact.
C5_EmptyCatalogNoMatch ==
    /\ IsInit /\ NoCatalog(catalog_file) =>
           Returns /\ alive /\ skin_names = <<>> /\ last.log = <<>>
    /\ alive /\ NoCatalog(catalog_file) /\ IsFind =>
           ReturnsNone /\ last.log = <<>> /\ embedding_model = "None" /\ ~embeddings.present

\* A manager built with index construction over a catalog artifact of blank
\* lines, with a cache artifact present, answered a query that is not blank.
C5_Witness ==
    /\ alive /\ IsFind /\ ReturnsNone
    /\ catalog_file.exists /\ catalog_file.lines # <<>> /\ NoCatalog(catalog_file)
    /\ ~Blank(last.user_query)
    /\ cache_file.kind = "array"

Manager == <<alive, skin_names, alias_to_canonical, embedding_model, embeddings, vector_dim,
             vector_index>>

\* C6: with a non-empty catalog, a find_best_match call whose query is None,
\* empty or whitespace-only returns None, constructs no model, encodes and
\* searches nothing, and leaves the manager and the cache artifact unchanged.
C6_BlankQueryDoesNothing ==
    [][(alive /\ skin_names # <<>> /\ last'.op = "find_best_match" /\ Blank(last'.user_query))
           => /\ last'.result = Returned(None)
              /\ last'.log = <<>>
              /\ UNCHANGED <<Manager, cache_file, mapping_file, catalog_file>>]_vars

\* A whitespace-only query was answered by a manager with a non-empty catalog
\* that has not loaded its model yet.
C6_Witness ==
    /\ IsFind /\ alive /\ skin_names # <<>>
    /\ last.user_query # None /\ last.user_query # <<>> /\ Blank(last.user_query)
    /\ embedding_model = "None" /\ ~embeddings.present

\* C7: when find_best_match selects catalog entry X and the alias map maps X
\* to Y the call returns Y; when X is not a key of the alias map it returns X.
C7_AliasTransparency ==
    IsFind /\ ReturnsName =>
        LET X == skin_names[last.best_idx]
        IN  /\ X \in DOMAIN alias_to_canonical => last.result.value = alias_to_canonical[X]
            /\ X \notin DOMAIN alias_to_canonical => last.result.value = X

\* The selected catalog entry has a canonical name different from itself, and
\* that name is returned.
C7_Witness ==
    /\ IsFind /\ ReturnsName
    /\ skin_names[last.best_idx] \in DOMAIN alias_to_canonical
    /\ alias_to_canonical[skin_names[last.best_idx]] # skin_names[last.best_idx]
    /\ last.result.value = alias_to_canonical[skin_names[last.best_idx]]

\* C8: after _load_alias_mapping, whatever the mapping artifact, every catalog
\* name is a key of the alias map; a name the artifact maps keeps the
\* artifact's value, a name it does not mention maps to itself, and when the
\* artifact is missing, unparseable, not an object or without entries the map
\* is the identity on the catalog names.
C8_AliasMapCoversCatalog ==
    alive =>
        LET explicit == ArtifactEntries(mapping_file)
        IN  /\ \A i \in DOMAIN skin_names :
                   /\ skin_names[i] \in DOMAIN alias_to_canonical
                   /\ alias_to_canonical[skin_names[i]] =
                          IF skin_names[i] \in DOMAIN explicit
                          THEN explicit[skin_names[i]] ELSE skin_names[i]
            /\ mapping_file.kind # "object" \/ DOMAIN explicit = {} =>
                   alias_to_canonical = IdentityOn(skin_names)

\* A manager was constructed over an artifact that maps one catalog name to
\* another name and does not mention a second catalog name.
C8_Witness ==
    /\ alive /\ IsInit
    /\ mapping_file.kind = "object"
    /\ \E i \in DOMAIN skin_names, j \in DOMAIN skin_names :
           /\ skin_names[i] \in DOMAIN ArtifactEntries(mapping_file)
           /\ alias_to_canonical[skin_names[i]] # skin_names[i]
           /\ skin_names[j] \notin DOMAIN ArtifactEntries(mapping_file)
           /\ alias_to_canonical[skin_names[j]] = skin_names[j]

\* The model failed during the call that left this log: its construction was
\* attempted while it cannot load, or an encoding while it cannot encode.
ModelFailed(log) ==
    \/ model_status = "load_fails" /\ HasEv(log, "load_model")
    \/ model_status = "encode_fails" /\ (HasEv(log, "encode_bulk") \/ HasEv(log, "encode_query"))

\* C9: when the embedding model fails to load or to encode, the constructor
\* or find_best_match raises (it never returns None instead); no cache
\* artifact is written, and after a failed recomputation no matrix is held.
C9_ModelFailurePropagates ==
    [][(last'.op # "none" /\ ModelFailed(last'.log))
           => /\ last'.result = Raised
              /\ cache_file' = cache_file
              /\ ~HasEv(last'.log, "adopt_cache") => embeddings' = embeddings
              /\ ~embeddings.present /\ ~HasEv(last'.log, "adopt_cache") => ~embeddings'.present]_vars

\* find_best_match read an unusable cache, started the recomputation, and the
\* bulk encoding failed.
C9_Witness ==
    /\ IsFind /\ last.result = Raised
    /\ HasEv(last.log, "read_cache") /\ HasEv(last.log, "encode_bulk")
    /\ model_status = "encode_fails"
    /\ ~embeddings.present /\ cache_file.kind # "missing"

\* A cache artifact that is unreadable, not two-dimensional, or whose row
\* count differs from n.
InvalidCache(c, n) ==
    \/ c.kind = "unreadable"
    \/ c.kind = "array" /\ (c.ndim # 2 \/ Len(c.rows) # n)

\* C10: a call that needs the matrix (a constructor building the index, a
\* find_best_match with a non-blank query and no matrix in memory) and finds
\* an invalid cache artifact does not fail because of it and never adopts it:
\* with the model available it encodes the whole catalog, overwrites the
\* artifact with the new matrix and holds that matrix; it raises only when
\* the model is unavailable.
C10_InvalidCacheRecomputed ==
    [][LET names == IF last'.op = "init" THEN LoadSkinNames(catalog_file') ELSE skin_names
           needed == \/ last'.op = "init" /\ last'.rebuild_index
                     \/ /\ last'.op = "find_best_match"
                        /\ ~Blank(last'.user_query)
                        /\ ~embeddings.present
       IN  (needed /\ names # <<>> /\ InvalidCache(cache_file, Len(names)))
               => /\ ~HasEv(last'.log, "adopt_cache")
                  /\ last'.result = Raised => model_status # "ok" /\ ~embeddings'.present
                  /\ model_status = "ok" =>
                         /\ last'.result # Raised
                         /\ embeddings' = Matrix(EncodeAll(names))
                         /\ cache_file' = CacheArray(EncodeAll(names))]_vars

\* find_best_match read a cache artifact, did not adopt it, and left the
\* embeddings of the catalog in memory and in the artifact.
C10_Witness ==
    /\ IsFind /\ Returns
    /\ HasEv(last.log, "read_cache") /\ HasEv(last.log, "write_cache")
    /\ embeddings = Matrix(EncodeAll(skin_names))
    /\ cache_file = CacheArray(EncodeAll(skin_names))

\* ---------------------------------------------------------------- C11
SearchedBoth == last.op = "search_both"

\* C11: for every embedding matrix of at least one row and every query vector,
\* the search through the inner-product index and the dot-product-plus-argsort
\* search return the same top-1 (row, score) pair, also when several rows have
\* the highest score.
C11_SameTopPair ==
    SearchedBoth => last.result.value.index[1] = last.result.value.argsort[1]

\* What holds of the two searches: the same top-1 score, and the same top-1
\* row when one row alone has the highest score.
C11_SameTopScore ==
    SearchedBoth =>
        LET r == last.result.value
            m == embeddings.rows
        IN  /\ r.index[1][2] = r.argsort[1][2]
            /\ r.index[1][2] = TopScore2(m, last.user_query)
            /\ Cardinality({i \in DOMAIN m : Dot(m[i], last.user_query) = r.index[1][2]}) = 1
                   => r.index[1] = r.argsort[1]

\* ---------------------------------------------------------------- C12
\* The order of equal scores of the library this build searches with.
LibraryTie == IF faiss THEN tie_faiss ELSE tie_numpy

\* The matrix the catalog and the cache artifact determine: the rows of the
\* artifact when it is a two-dimensional array with one row per name, the
\* embeddings of the names otherwise.
DeterminedMatrix(c, names) ==
    IF c.kind = "array" /\ ~InvalidCache(c, Len(names)) THEN c.rows ELSE EncodeAll(names)

\* The row of m with the highest score for text v, the first or the last of
\* them in row order as the library orders equal scores.
TopRow(m, v, tie) ==
    CHOOSE i \in DOMAIN m :
        /\ Dot(m[i], Encode(v)) = TopScore(m, v)
        /\ \A j \in DOMAIN m :
               Dot(m[j], Encode(v)) = TopScore(m, v) => IF tie = "low" THEN i <= j ELSE i >= j

\* The answer to query q with cutoff c as a function of the catalog, the alias
\* map and the matrix alone.
ExpectedAnswer(names, alias_map, m, tie, q, c) ==
    IF names = <<>> \/ Blank(q) THEN None
    ELSE LET v == FirstToClear(m, q, c)
         IN  IF v = None THEN None ELSE Canonical(alias_map, names[TopRow(m, v, tie)])

\* C12: for a fixed catalog, alias map and cache artifact, find_best_match(q, c)
\* returns the same result on every call: whatever calls came before and
\* whether the matrix and the index were built by the constructor, loaded
\* from the cache or built by an earlier query, the value a call returns is
\* one function of the catalog, the alias map, the cache artifact as the call
\* finds it, the query and the cutoff.
C12_SameAnswerEveryCall ==
    [][(last'.op = "find_best_match" /\ last'.result.kind = "return")
           => last'.result.value =
                  ExpectedAnswer(skin_names, alias_to_canonical,
                                 DeterminedMatrix(cache_file, skin_names), LibraryTie,
                                 last'.user_query, last'.score_cutoff)]_vars

\* A call on a manager that already holds its model, matrix and index
\* returned a name where two rows of different names share the top score.
C12_Witness ==
    /\ IsFind /\ ReturnsName /\ faiss
    /\ ~HasEv(last.log, "load_model") /\ ~HasEv(last.log, "read_cache")
    /\ ~HasEv(last.log, "build_index")
    /\ \E i \in DOMAIN skin_names, j \in DOMAIN skin_names :
           /\ skin_names[i] # skin_names[j]
           /\ Dot(embeddings.rows[i], Encode(last.used_query)) = last.best_score
           /\ Dot(embeddings.rows[j], Encode(last.used_query)) = last.best_score

\* ---------------------------------------------------------------- C13
\* A second manager created now over the same artifacts, without index
\* construction: its fields before its first call.
SecondWorld ==
    [World EXCEPT !.embedding_model = "None", !.embeddings = NoMatrix, !.vector_dim = 0,
                  !.vector_index = NoMatrix]

\* C13: when a manager holds a matrix it built and persisted, a second manager
\* created over the same catalog and cache artifact without forced rebuild
\* adopts the persisted matrix without bulk-encoding the catalog, whether it
\* builds its index in the constructor or on its first query, and returns for
\* the query and cutoff of the first manager's call the result the first
\* manager returned from its in-memory matrix (the second manager needs the
\* model, to encode the query, and the comparison is made while it can load).
C13_CacheRoundTrip ==
    IsFind /\ Returns /\ embeddings.present =>
        \A names \in {LoadSkinNames(catalog_file)} :
        \A built \in {BuildVectorIndex(SecondWorld, names, FALSE)} :
        \A second \in {FindBestMatch(SecondWorld, names, LoadAliasMapping(mapping_file, names),
                                     last.user_query, last.score_cutoff)} :
            /\ ~built.raised
            /\ built.embeddings = embeddings
            /\ HasEv(built.log, "adopt_cache") /\ ~HasEv(built.log, "encode_bulk")
            /\ model_status = "ok" \/ Blank(last.user_query) => second.result = last.result
            /\ model_status = "ok" /\ ~Blank(last.user_query) =>
                   /\ second.w.embeddings = embeddings
                   /\ HasEv(second.w.log, "adopt_cache")
                   /\ ~HasEv(second.w.log, "encode_bulk")

\* The call encoded the catalog, persisted the matrix and returned a name from
\* the matrix in memory.
C13_Witness ==
    /\ IsFind /\ ReturnsName
    /\ HasEv(last.log, "encode_bulk") /\ HasEv(last.log, "write_cache")
    /\ ~HasEv(last.log, "adopt_cache")
    /\ embeddings.present /\ cache_file = CacheArray(embeddings.rows)

\* ---------------------------------------------------------------- C14
\* The names of an item: its market_hash_name, market_name and name, stripped,
\* those that are present and not blank.
NamesOf(item) ==
    {Strip(item.raw[k]) : k \in {j \in 1..3 : item.raw[j] # None /\ ~Blank(item.raw[j])}}

\* The first of them.
PrimaryOf(item) ==
    Strip(item.raw[CHOOSE k \in 1..3 :
                       /\ item.raw[k] # None /\ ~Blank(item.raw[k])
                       /\ \A j \in 1..(k - 1) : item.raw[j] = None \/ Blank(item.raw[j])])

\* The items of the two feeds in the order update_skin_list processes them,
\* each with its locale.
Processed(en, zh) ==
    [k \in DOMAIN en.items |-> [locale |-> "en", item |-> en.items[k]]]
        \o [k \in DOMAIN zh.items |-> [locale |-> "zh-CN", item |-> zh.items[k]]]

\* The named item of the English feed with this id, if there is one.
EnglishItems(en, id) ==
    {en.items[k] : k \in {j \in DOMAIN en.items : en.items[j].id = id /\ NamesOf(en.items[j]) # {}}}

\* The English primary name of a processed item when the English feed names
\* its id, its own first name otherwise.
BaseOf(en, p) ==
    IF p.locale # "en" /\ EnglishItems(en, p.item.id) # {}
    THEN PrimaryOf(CHOOSE e \in EnglishItems(en, p.item.id) : TRUE)
    ELSE PrimaryOf(p.item)

\* A refresh has just written the mapping artifact.
Refreshed ==
    /\ IsInit /\ last.refresh_data
    /\ \E k \in DOMAIN Processed(last.en, last.zh) : NamesOf(Processed(last.en, last.zh)[k].item) # {}

\* C14 as written: after update_skin_list has processed the English feed and
\* then the zh-CN feed, for every item identifier of the English feed, every
\* name collected for that item in either locale maps, in the written alias
\* map, to the item's English primary name.
C14_NamesMapToEnglishPrimary ==
    Refreshed =>
        LET seq == Processed(last.en, last.zh)
            written == mapping_file.nested.map
        IN  \A k \in DOMAIN seq :
                EnglishItems(last.en, seq[k].item.id) # {} =>
                    \A n \in NamesOf(seq[k].item) :
                        /\ n \in DOMAIN written
                        /\ written[n] =
                               PrimaryOf(CHOOSE e \in EnglishItems(last.en, seq[k].item.id) : TRUE)

\* C14 amended: the keys of the written alias map are the names collected,
\* and each maps to the base name of the last item, in processing order, that
\* collected it: the English primary name of that item's identifier when the
\* English feed names it, that item's own first name otherwise.
C14_NamesMapToLastCollectorBase ==
    Refreshed =>
        LET seq == Processed(last.en, last.zh)
            written == mapping_file.nested.map
            final(n) == CHOOSE k \in DOMAIN seq :
                            /\ n \in NamesOf(seq[k].item)
                            /\ \A j \in DOMAIN seq : n \in NamesOf(seq[j].item) => j <= k
        IN  /\ mapping_file.kind = "object" /\ mapping_file.nested.present
            /\ DOMAIN written = UNION {NamesOf(seq[k].item) : k \in DOMAIN seq}
            /\ \A n \in DOMAIN written : written[n] = BaseOf(last.en, seq[final(n)])

\* A name was collected for two items of different base names, the later one
\* a zh-CN item anchored to its English primary name, and maps to that.
C14_Witness ==
    /\ Refreshed
    /\ LET seq == Processed(last.en, last.zh)
       IN  \E j \in DOMAIN seq, k \in DOMAIN seq, n \in DOMAIN mapping_file.nested.map :
               /\ j < k
               /\ n \in NamesOf(seq[j].item) /\ n \in NamesOf(seq[k].item)
               /\ seq[k].locale = "zh-CN"
               /\ BaseOf(last.en, seq[j]) # BaseOf(last.en, seq[k])
               /\ BaseOf(last.en, seq[k]) # PrimaryOf(seq[k].item)
               /\ mapping_file.nested.map[n] = BaseOf(last.en, seq[k])

\* ---------------------------------------------------------------- C15
\* C15: in every reachable state of a manager, row i of the adopted embedding
\* matrix, and entry i of the similarity index, is the embedding of catalog
\* name i of the current session; a cache artifact persisted for an earlier
\* catalog is never adopted for a catalog whose names differ from it.
C15_RowsAreEmbeddingsOfCatalog ==
    alive =>
        /\ embeddings.present => embeddings.rows = EncodeAll(skin_names)
        /\ vector_index.present => vector_index.rows = EncodeAll(skin_names)

\* ---------------------------------------------------------------- C16
\* C16: in every reachable state of a manager, an in-memory matrix that is
\* present has one row per catalog entry, an index that is present holds
\* exactly the rows of the in-memory matrix, and an operation that adopted the
\* cache artifact found in it one row per catalog entry.
C16_MatrixRowsMatchCatalog ==
    alive =>
        /\ embeddings.present => skin_names # <<>> /\ Len(embeddings.rows) = Len(skin_names)
        /\ vector_index.present => embeddings.present /\ vector_index.rows = embeddings.rows
        /\ HasEv(last.log, "adopt_cache") =>
               /\ cache_file.kind = "array" /\ cache_file.ndim = 2
               /\ Len(cache_file.rows) = Len(skin_names)
               /\ embeddings = Matrix(cache_file.rows)

\* A query found a cache artifact of another row count than the catalog, and
\* left a matrix and an index of one row per catalog entry.
C16_Witness ==
    /\ IsFind /\ Returns
    /\ HasEv(last.log, "read_cache") /\ ~HasEv(last.log, "adopt_cache")
    /\ HasEv(last.log, "build_index")
    /\ Len(skin_names) = 2
    /\ Len(embeddings.rows) = 2 /\ vector_index.present

\* ---------------------------------------------------------------- C17
\* C17: when two callers concurrently make the first resolution call on a
\* manager whose model, matrix and index are not initialised, at most one of
\* them constructs the embedding model, at most one bulk-encodes the catalog,
\* and at most one writes the cache artifact.
C17_LazyInitOnce ==
    /\ performed["load_model"] # "repeated"
    /\ performed["encode_bulk"] # "repeated"
    /\ performed["write_cache"] # "repeated"

\* ---------------------------------------------------------------- C18
FindStep == last.op = "none" /\ last'.op = "find_best_match"

\* A call on a manager that holds the matrix keeps it, and neither reads nor
\* writes the cache artifact, nor encodes the catalog, nor replaces the index.
WarmCallLeavesCache ==
    embeddings.present =>
        /\ embeddings' = embeddings
        /\ cache_file' = cache_file
        /\ ~HasEv(last'.log, "read_cache")
        /\ ~HasEv(last'.log, "write_cache")
        /\ ~HasEv(last'.log, "encode_bulk")
        /\ vector_index.present => vector_index' = vector_index /\ ~HasEv(last'.log, "build_index")

\* C18 (as stated): across the find_best_match calls on one manager each of
\* model construction, bulk encoding, cache read, cache write and index build
\* is done at most once, and once the matrix is in memory no later call reads
\* or writes the cache artifact or rebuilds the index.
C18_EachAtMostOnce ==
    [][FindStep => /\ \A o \in Operations : performed'[o] # "repeated"
                   /\ WarmCallLeavesCache]_vars

\* C18 (amended): the model is constructed, the catalog bulk-encoded, the cache
\* artifact written and the index built at most once each; a call that reads
\* the cache artifact reads it once and, when it returns, leaves the matrix
\* in memory (only a call that raised can be followed by another read); once
\* the matrix is in memory no later call reads or writes the cache artifact
\* or rebuilds the index.
C18_AtMostOnceUnlessRaised ==
    [][FindStep => /\ \A o \in Operations \ {"read_cache"} : performed'[o] # "repeated"
                   /\ Completed(last'.log, FALSE, "read_cache") <= 1
                   /\ HasEv(last'.log, "read_cache") /\ last'.result # Raised
                          => embeddings'.present
                   /\ WarmCallLeavesCache]_vars

\* A later call on a manager that read the cache artifact, constructed the
\* model and built the index in an earlier call: it only encodes and searches.
C18_Witness ==
    /\ last.op = "find_best_match"
    /\ performed["read_cache"] = "once"
    /\ performed["load_model"] = "once"
    /\ performed["build_index"] = "once"
    /\ ~HasEv(last.log, "read_cache")
    /\ ~HasEv(last.log, "load_model")
    /\ ~HasEv(last.log, "build_index")
    /\ HasEv(last.log, "search")

\* ---------------------------------------------------------------- C19
\* A constructor call with refresh_data=True that returned a manager over a
\* catalog with names.
RefreshedConstruct ==
    /\ last.op = "none"
    /\ last'.op = "init"
    /\ last'.refresh_data
    /\ alive'
    /\ skin_names' # <<>>

\* The cache artifact was not read; the catalog was encoded, saved, adopted,
\* and the index (where the library is there) built from the new matrix.
CacheRefreshed ==
    /\ ~HasEv(last'.log, "read_cache")
    /\ ~HasEv(last'.log, "adopt_cache")
    /\ HasEv(last'.log, "encode_bulk")
    /\ HasEv(last'.log, "write_cache")
    /\ cache_file' = CacheArray(EncodeAll(skin_names'))
    /\ embeddings' = Matrix(EncodeAll(skin_names'))
    /\ faiss => vector_index' = embeddings'

\* C19: a manager constructed with refresh_data=True over a non-empty catalog
\* never loads or adopts the existing cache artifact: the catalog is
\* bulk-encoded, the cache artifact overwritten with the new matrix, the new
\* matrix adopted and the index built from it.
C19_RefreshRebuildsCache == [][RefreshedConstruct => CacheRefreshed]_vars

\* The same for the constructor calls with rebuild_index=True only.
C19_RefreshWithRebuildIndex ==
    [][RefreshedConstruct /\ last'.rebuild_index => CacheRefreshed]_vars

\* ---------------------------------------------------------------- C20
\* The value of key x is a fixed point of the map m: m.get(m[x], m[x]) = m[x].
ValueIsFixedPoint(m, x) == Canonical(m, m[x]) = m[x]

\* C20 (as stated): every value of the alias map the manager holds, and of
\* the map update_skin_list writes, is a fixed point of that map.
C20_ValuesAreFixedPoints ==
    /\ alive => \A x \in DOMAIN alias_to_canonical : ValueIsFixedPoint(alias_to_canonical, x)
    /\ Refreshed => \A x \in DOMAIN mapping_file.nested.map :
                        ValueIsFixedPoint(mapping_file.nested.map, x)

\* C20 (amended): every catalog name is a key of the manager's map and is
\* its own value when the mapping artifact has no entry for it; a value y of
\* the manager's map is a fixed point exactly when the artifact has no entry
\* for y or maps y to itself.  Every value y of the map update_skin_list
\* writes is a key of it, and is a fixed point exactly when the last item
\* that collected the name y has y as its base name.
C20_FixedPointsFollowTheArtifact ==
    /\ alive =>
          LET entries == ArtifactEntries(mapping_file)
          IN  /\ \A i \in DOMAIN skin_names :
                     /\ skin_names[i] \in DOMAIN alias_to_canonical
                     /\ skin_names[i] \notin DOMAIN entries
                            => alias_to_canonical[skin_names[i]] = skin_names[i]
              /\ \A x \in DOMAIN alias_to_canonical :
                     ValueIsFixedPoint(alias_to_canonical, x)
                         <=> \/ alias_to_canonical[x] \notin DOMAIN entries
                             \/ entries[alias_to_canonical[x]] = alias_to_canonical[x]
    /\ Refreshed =>
          LET seq == Processed(last.en, last.zh)
              written == mapping_file.nested.map
              final(n) == CHOOSE k \in DOMAIN seq :
                              /\ n \in NamesOf(seq[k].item)
                              /\ \A j \in DOMAIN seq : n \in NamesOf(seq[j].item) => j <= k
          IN  \A x \in DOMAIN written :
                  /\ written[x] \in DOMAIN written
                  /\ ValueIsFixedPoint(written, x)
                         <=> BaseOf(last.en, seq[final(written[x])]) = written[x]

\* A refresh wrote a map in which a name leads to a name that leads to a
\* third, and the manager constructed over it holds that chain, next to a
\* catalog name that is its own value.
C20_Witness ==
    /\ Refreshed
    /\ alive
    /\ \E x \in DOMAIN mapping_file.nested.map :
           /\ ~ValueIsFixedPoint(mapping_file.nested.map, x)
           /\ x \in DOMAIN alias_to_canonical
           /\ ~ValueIsFixedPoint(alias_to_canonical, x)
    /\ \E i \in DOMAIN skin_names : alias_to_canonical[skin_names[i]] = skin_names[i]

\* ---------------------------------------------------------------- C21
\* C21: after a run that ends with an error event or with the incomplete
\* event, conversation_history equals its value before that run, also when
\* the consumer stops iterating at the error event as the loop of main.py does.
C21_FailedRunRestoresHistory ==
    \A c \in DOMAIN runs :
        runs[c].pc = "done" /\ runs[c].ended \in {"error", "incomplete"}
            => conversation_history = runs[c].before

\* The same for the runs whose consumer iterates to the end, and for the
\* incomplete event with either consumer.
C21_RestoredWhenResumed ==
    \A c \in DOMAIN runs :
        /\ runs[c].pc = "done" /\ runs[c].ended \in {"error", "incomplete"}
        /\ runs[c].consumer = "server" \/ runs[c].ended = "incomplete"
        => conversation_history = runs[c].before

\* ---------------------------------------------------------------- C22
\* C22: when two runs on the shared agent interleave, each run that ends in
\* error or incomplete removes exactly its own user message and raises no
\* IndexError, and each run that ends in final has its user message and its
\* assistant answer in the history.
C22_EachRunRemovesItsOwn ==
    \A c \in DOMAIN runs :
        runs[c].pc = "done" =>
            /\ ~runs[c].raised
            /\ runs[c].ended \in {"error", "incomplete"} =>
                   runs[c].popped = <<UserMessage(runs[c].user_question, runs[c].id)>>
            /\ runs[c].ended = "final" =>
                   \E i, j \in DOMAIN conversation_history :
                       /\ i < j
                       /\ conversation_history[i] =
                              UserMessage(runs[c].user_question, runs[c].id)
                       /\ conversation_history[j] =
                              AssistantMessage(runs[c].user_question, runs[c].id)

====
